---- MODULE Spec2Model ----
(***************************************************************************)
(* Model of flightctl/fips-validator: the ELF inspector (pkg/elfinfo), the *)
(* per-binary rule engine (internal/validation ValidateBinary), the        *)
(* libcrypto scan (ValidateOpenSSL) and the tree walk (ScanDirTree).       *)
(*                                                                         *)
(* Strings are sequences of one-character strings, so that prefix,         *)
(* substring, split and version parsing are computed and not assumed.      *)
(* Go slices are 0-based: Go's s[i] is s[i + 1] here.                      *)
(***************************************************************************)
EXTENDS Integers, Sequences, FiniteSets, TLC

VARIABLES
    file,       \* the file handed to ValidateBinary (what elf.Open / buildinfo.ReadFile see)
    verdict,    \* what ValidateBinary returned and printed
    lookups,    \* the indices with which info.Sections was indexed during the call
    vpc,        \* position of the ValidateBinary call: "start" | "done"
    tree,       \* the entries filepath.WalkDir hands to the callback, in walk order
    pos,        \* number of entries already handed to the callback
    allValid,   \* ScanDirTree's accumulator
    walkErr,    \* the callback returned an error: WalkDir stopped
    validated,  \* positions of the entries on which ValidateBinary was called
    scanResult, \* the value ScanDirTree returned
    spc,        \* position of ScanDirTree: "walking" | "done"
    root,       \* the four library directories under rootPath
    libVerdict, \* what ValidateOpenSSL returned
    lpc         \* position of the ValidateOpenSSL call: "start" | "done"

vars == <<file, verdict, lookups, vpc, tree, pos, allValid, walkErr, validated,
          scanResult, spc, root, libVerdict, lpc>>

binVars == <<file, verdict, lookups, vpc>>
scanVars == <<tree, pos, allValid, walkErr, validated, scanResult, spc>>
libVars == <<root, libVerdict, lpc>>

(***************************************************************************)
(* Bounds of the model.                                                    *)
(***************************************************************************)
MaxFiles == 3
MaxLibs == 1

(***************************************************************************)
(* String helpers (package strings / bytes / slices).                      *)
(***************************************************************************)
HasPrefix(s, p) == Len(s) >= Len(p) /\ SubSeq(s, 1, Len(p)) = p

TrimPrefix(s, p) == IF HasPrefix(s, p) THEN SubSeq(s, Len(p) + 1, Len(s)) ELSE s

Contains(s, sub) == \E i \in 0..(Len(s) - Len(sub)) : SubSeq(s, i + 1, i + Len(sub)) = sub

\* 0-based index of the first c in s, -1 when there is none
IndexByte(s, c) ==
    IF \E i \in 1..Len(s) : s[i] = c
    THEN (CHOOSE i \in 1..Len(s) : s[i] = c /\ \A j \in 1..(i - 1) : s[j] # c) - 1
    ELSE -1

RECURSIVE Split(_, _)
Split(s, c) ==
    LET i == IndexByte(s, c)
    IN IF i = -1 THEN <<s>>
       ELSE <<SubSeq(s, 1, i)>> \o Split(SubSeq(s, i + 2, Len(s)), c)

SliceContains(list, x) == \E i \in 1..Len(list) : list[i] = x

(***************************************************************************)
(* The names the code compares against.                                    *)
(***************************************************************************)
StrCrypto == <<"c", "r", "y", "p", "t", "o">>
StrBss == <<".", "b", "s", "s">>
StrText == <<".", "t", "e", "x", "t">>
StrGo == <<"g", "o">>
StrCgoInit == <<"_", "c", "g", "o", "_", "i", "n", "i", "t">>
StrCgoTopofstack == <<"_", "c", "g", "o", "_", "t", "o", "p", "o", "f", "s", "t", "a", "c", "k">>
StrDlopen == <<"v", "e", "n", "d", "o", "r", "/", "g", "i", "t", "h", "u", "b", ".", "c", "o", "m", "/", "g", "o", "l", "a", "n", "g", "-", "f", "i", "p", "s", "/", "o", "p", "e", "n", "s", "s", "l", "/", "v", "2", ".", "d", "l", "o", "p", "e", "n">>
StrCgoEnabled == <<"C", "G", "O", "_", "E", "N", "A", "B", "L", "E", "D">>
StrTags == <<"-", "t", "a", "g", "s">>
StrGoexperiment == <<"G", "O", "E", "X", "P", "E", "R", "I", "M", "E", "N", "T">>
StrStrictfipsruntime == <<"s", "t", "r", "i", "c", "t", "f", "i", "p", "s", "r", "u", "n", "t", "i", "m", "e">>
StrNoOpenssl == <<"n", "o", "_", "o", "p", "e", "n", "s", "s", "l">>
StrOne == <<"1">>

(***************************************************************************)
(* semver.NewVersion and Constraints.Check (Masterminds/semver v3), as     *)
(* called at openssl.go:164 and openssl.go:232.  A version is              *)
(* [v]MAJOR[.MINOR[.PATCH]][-PRERELEASE]; a missing component is 0.        *)
(***************************************************************************)
Digits == {"0", "1", "2", "3", "4", "5", "6", "7", "8", "9"}

DigitVal(c) ==
    CASE c = "0" -> 0 [] c = "1" -> 1 [] c = "2" -> 2 [] c = "3" -> 3 [] c = "4" -> 4
      [] c = "5" -> 5 [] c = "6" -> 6 [] c = "7" -> 7 [] c = "8" -> 8 [] c = "9" -> 9

RECURSIVE ParseUint(_)
ParseUint(s) ==
    IF Len(s) = 0 THEN 0
    ELSE 10 * ParseUint(SubSeq(s, 1, Len(s) - 1)) + DigitVal(s[Len(s)])

IsNumber(s) == Len(s) > 0 /\ \A i \in 1..Len(s) : s[i] \in Digits

PreChars == Digits \cup {"a", "b", "c", "d", "e", "f", "g", "h", "i", "j", "k", "l", "m",
                          "n", "o", "p", "q", "r", "s", "t", "u", "v", "w", "x", "y", "z", "-",
                          "A", "B", "C", "D", "E", "F", "G", "H", "I", "J", "K", "L", "M",
                          "N", "O", "P", "Q", "R", "S", "T", "U", "V", "W", "X", "Y", "Z"}

IsPrerelease(s) ==
    LET parts == Split(s, ".")
    IN \A i \in 1..Len(parts) :
          Len(parts[i]) > 0 /\ \A j \in 1..Len(parts[i]) : parts[i][j] \in PreChars

NoVersion == [ok |-> FALSE, major |-> 0, minor |-> 0, patch |-> 0, pre |-> <<>>]

NewVersion(str) ==
    LET s == TrimPrefix(str, <<"v">>)
        dash == IndexByte(s, "-")
        core == IF dash = -1 THEN s ELSE SubSeq(s, 1, dash)
        pre == IF dash = -1 THEN <<>> ELSE SubSeq(s, dash + 2, Len(s))
        nums == Split(core, ".")
    IN IF /\ Len(nums) \in 1..3
          /\ \A i \in 1..Len(nums) : IsNumber(nums[i])
          /\ (dash # -1 => IsPrerelease(pre))
       THEN [ok |-> TRUE,
             major |-> ParseUint(nums[1]),
             minor |-> IF Len(nums) >= 2 THEN ParseUint(nums[2]) ELSE 0,
             patch |-> IF Len(nums) >= 3 THEN ParseUint(nums[3]) ELSE 0,
             pre |-> pre]
       ELSE NoVersion

\* a ">= X.Y" constraint: a prerelease version never satisfies a constraint that
\* names no prerelease; otherwise compare (major, minor, patch)
ConstraintCheck(c, v) ==
    /\ v.pre = <<>>
    /\ \/ v.major > c.major
       \/ v.major = c.major /\ v.minor > c.minor
       \/ v.major = c.major /\ v.minor = c.minor /\ v.patch >= c.patch

requiredSymbolsForGoVersions ==
    << [versions |-> [major |-> 1, minor |-> 23, patch |-> 0],
        requirements |-> <<StrDlopen>>] >>

(***************************************************************************)
(* pkg/elfinfo: what ReadFile extracts from a file.                        *)
(* A file is [open, Type, dynErr, dynFlags, Progs, Sections, Symbols, bi]: *)
(* open is how elf.Open ends, dynErr whether reading DT_FLAGS_1 fails,     *)
(* dynFlags the DT_FLAGS_1 values, bi what buildinfo.ReadFile returns.     *)
(***************************************************************************)
SHN_LORESERVE == 65280
DF_1_PIE == 134217728

NilInfo == [IsElf |-> FALSE, IsStatic |-> FALSE, Sections |-> <<>>, Symbols |-> <<>>]

\* Static binaries do not have a PT_INTERP program.
isStatic(exe) == ~\E i \in 1..Len(exe.Progs) : exe.Progs[i] = "PT_INTERP"

isPie(exe) ==
    IF exe.dynErr THEN [pie |-> FALSE, err |-> TRUE]
    ELSE [pie |-> \E i \in 1..Len(exe.dynFlags) : (exe.dynFlags[i] \div DF_1_PIE) % 2 = 1,
          err |-> FALSE]

getSectionNames(exe) == exe.Sections

LoadedInfo(exe) ==
    [IsElf |-> TRUE, IsStatic |-> isStatic(exe),
     Sections |-> getSectionNames(exe), Symbols |-> exe.Symbols]

\* err: "" (nil) | "bad magic" (the '#!' of a script) | "read error" | "dynamic section"
ReadFile(f) ==
    IF f.open # "ok" THEN [info |-> NilInfo, err |-> f.open]
    ELSE CASE f.Type = "ET_EXEC" -> [info |-> LoadedInfo(f), err |-> ""]
           [] f.Type = "ET_DYN" ->
                 IF isPie(f).err THEN [info |-> NilInfo, err |-> "dynamic section"]
                 ELSE IF ~isPie(f).pie THEN [info |-> NilInfo, err |-> ""]
                 ELSE [info |-> LoadedInfo(f), err |-> ""]
           [] OTHER -> [info |-> NilInfo, err |-> ""]

(***************************************************************************)
(* internal/validation: the symbol-to-section lookups.                     *)
(***************************************************************************)
\* the guard in front of every info.Sections[sym.Section]: FALSE means `continue`
InRangeOffByOne(info, sym) ==
    ~(sym.Section >= SHN_LORESERVE \/ sym.Section > Len(info.Sections))

InRange(info, sym) ==
    ~(sym.Section >= SHN_LORESERVE \/ sym.Section >= Len(info.Sections))

\* info.Sections[i]; Go panics on an index outside the slice
SectionAt(info, i) ==
    IF i >= 0 /\ i < Len(info.Sections) THEN info.Sections[i + 1]
    ELSE <<"p", "a", "n", "i", "c">>

\* 1-based position of the first symbol that passes the guard and satisfies P, 0 if none
FirstHit(info, P(_, _)) ==
    LET hits == {k \in 1..Len(info.Symbols) :
                    /\ InRange(info, info.Symbols[k])
                    /\ P(info.Symbols[k], SectionAt(info, info.Symbols[k].Section))}
    IN IF hits = {} THEN 0 ELSE CHOOSE k \in hits : \A j \in hits : k <= j

\* the indices used on info.Sections by a loop that stops at its first hit
Indexed(info, P(_, _)) ==
    LET hit == FirstHit(info, P)
        last == IF hit = 0 THEN Len(info.Symbols) ELSE hit
    IN {info.Symbols[j].Section : j \in {k \in 1..last : InRange(info, info.Symbols[k])}}

NotBss(section) == ~SliceContains(<<StrBss>>, section)

IsCryptoSym(sym, section) == Contains(sym.Name, StrCrypto) /\ NotBss(section)

IsCgoInitSym(sym, section) ==
    (sym.Name = StrCgoInit \/ sym.Name = StrCgoTopofstack) /\ NotBss(section)

usesCryptoAnySection(info) ==
    FirstHit(info, LAMBDA sym, section : Contains(sym.Name, StrCrypto)) # 0

usesCrypto(info) == FirstHit(info, IsCryptoSym) # 0

(***************************************************************************)
(* internal/validation: the checks.  A reason is [msg, arg].               *)
(***************************************************************************)
Reason(msg, arg) == [msg |-> msg, arg |-> arg]

MapSeq(s, F(_)) == [i \in 1..Len(s) |-> F(s[i])]

validateNotStaticallyLinkedNever(info) == <<>>

validateNotStaticallyLinked(info) ==
    IF info.IsStatic THEN <<Reason("statically linked", <<>>)>> ELSE <<>>

validateCgoEnabledAnyValue(bi) ==
    IF \E i \in 1..Len(bi.Settings) : bi.Settings[i].Key = StrCgoEnabled
    THEN <<>>
    ELSE <<Reason("not compiled with CGO_ENABLED=1", <<>>)>>

validateCgoEnabled(bi) ==
    IF \E i \in 1..Len(bi.Settings) :
          bi.Settings[i].Key = StrCgoEnabled /\ bi.Settings[i].Value = StrOne
    THEN <<>>
    ELSE <<Reason("not compiled with CGO_ENABLED=1", <<>>)>>

validateCgoInit(info) ==
    IF FirstHit(info, IsCgoInitSym) # 0 THEN <<>>
    ELSE <<Reason("missing cgo_init symbol", <<>>)>>

\* requirements of the first table entry whose constraint the version satisfies
RequiredSymbols(goVersion) ==
    LET T == requiredSymbolsForGoVersions
        ms == {i \in 1..Len(T) : ConstraintCheck(T[i].versions, goVersion)}
    IN IF ms = {} THEN <<>>
       ELSE T[CHOOSE i \in ms : \A j \in ms : i <= j].requirements

SymbolFound(info, rs) ==
    FirstHit(info, LAMBDA sym, section : sym.Name = rs /\ NotBss(section)) # 0

MissingSymbols(info, requiredSymbols) ==
    MapSeq(SelectSeq(requiredSymbols, LAMBDA rs : ~SymbolFound(info, rs)),
           LAMBDA rs : Reason("missing required symbol", rs))

validateGoSymbolsNoVersionGate(info, goVersion) ==
    MissingSymbols(info, RequiredSymbols(goVersion))

validateGoSymbols(info, goVersion) ==
    LET requiredSymbols == RequiredSymbols(goVersion)
    IN IF Len(requiredSymbols) = 0
       THEN <<Reason("Go version not yet supported by fips-validator", <<>>)>>
       ELSE MissingSymbols(info, requiredSymbols)

validateGoTagsAndExperiment(bi) ==
    LET S == bi.Settings
        tagIdx == {i \in 1..Len(S) : S[i].Key = StrTags}
        buildTags == IF tagIdx = {} THEN <<>>
                     ELSE Split(S[CHOOSE i \in tagIdx : \A j \in tagIdx : i <= j].Value, ",")
        deniedTags == <<StrNoOpenssl>>
        tagErrs == MapSeq(SelectSeq(deniedTags, LAMBDA tag : SliceContains(buildTags, tag)),
                          LAMBDA tag : Reason("uses forbidden build tag", tag))
        expErrs == MapSeq(SelectSeq(S, LAMBDA bs : /\ bs.Key = StrGoexperiment
                                                   /\ ~Contains(bs.Value, StrStrictfipsruntime)),
                          LAMBDA bs : Reason("missing required GOEXPERIMENT value 'strictfipsruntime'", <<>>))
    IN tagErrs \o expErrs

\* ver of openssl.go:160-163
VersionString(bi) ==
    LET ver == TrimPrefix(bi.GoVersion, StrGo)
        i == IndexByte(ver, " ")
    IN IF i # -1 THEN SubSeq(ver, 1, i) ELSE ver

\* the branch taken when buildinfo.ReadFile succeeded (openssl.go:160-172)
RuntimeChecksTagsAlways(ei, bi) ==
    LET goVersion == NewVersion(VersionString(bi))
    IN IF ~goVersion.ok
       THEN <<Reason("failed to parse Go version", bi.GoVersion)>>
               \o validateGoTagsAndExperiment(bi)
       ELSE validateCgoEnabled(bi) \o validateCgoInit(ei)
               \o validateGoSymbols(ei, goVersion) \o validateGoTagsAndExperiment(bi)

RuntimeChecks(ei, bi) ==
    LET goVersion == NewVersion(VersionString(bi))
    IN IF ~goVersion.ok
       THEN <<Reason("failed to parse Go version", bi.GoVersion)>>
       ELSE validateCgoEnabled(bi) \o validateCgoInit(ei)
               \o validateGoSymbols(ei, goVersion) \o validateGoTagsAndExperiment(bi)

\* what ValidateBinary returns (ok) and prints (printed, errs)
ValidateBinary(f) ==
    LET r == ReadFile(f)
        ei == r.info
    IN IF r.err # ""
       THEN [ok |-> TRUE, errs |-> <<>>,
             printed |-> IF r.err = "bad magic" THEN "skipped (shell script)"
                         ELSE "skipped (failed to read ELF info)"]
       ELSE IF ~ei.IsElf
       THEN [ok |-> TRUE, errs |-> <<>>, printed |-> "skipped (not an ELF executable)"]
       ELSE IF ~usesCrypto(ei)
       THEN [ok |-> TRUE, errs |-> <<>>, printed |-> "skipped (no crypto)"]
       ELSE LET errs == validateNotStaticallyLinked(ei)
                           \o (IF f.bi.present THEN RuntimeChecks(ei, f.bi) ELSE <<>>)
            IN [ok |-> Len(errs) = 0, errs |-> errs,
                printed |-> IF Len(errs) > 0 THEN "failed" ELSE "success"]

\* the indices with which ValidateBinary's callees index info.Sections
SectionLookups(f) ==
    LET r == ReadFile(f)
        ei == r.info
        goVersion == NewVersion(VersionString(f.bi))
        req == RequiredSymbols(goVersion)
    IN IF r.err # "" \/ ~ei.IsElf THEN {}
       ELSE Indexed(ei, IsCryptoSym)
            \cup (IF usesCrypto(ei) /\ f.bi.present /\ goVersion.ok
                  THEN Indexed(ei, IsCgoInitSym)
                       \cup UNION {Indexed(ei, LAMBDA sym, section :
                                                  sym.Name = req[i] /\ NotBss(section)) :
                                   i \in 1..Len(req)}
                  ELSE {})

(***************************************************************************)
(* The files ValidateBinary is run on.                                     *)
(***************************************************************************)
\* SHN_ABS (0xfff1), a section index of the reserved range
SHN_ABS == SHN_LORESERVE + 241

Sym(name, section) == [Name |-> name, Section |-> section]

StrCryptoSym == <<"c", "r", "y", "p", "t", "o", "/", "s", "h", "a", "2", "5", "6", ".", "b", "l", "o", "c", "k">>

\* every symbol table is a subsequence of this one
SymbolUniverse ==
    << Sym(StrCryptoSym, 1), Sym(StrCryptoSym, 2), Sym(StrCryptoSym, SHN_ABS),
       Sym(StrCgoInit, 1), Sym(StrDlopen, 1), Sym(StrCgoTopofstack, 2) >>

RECURSIVE Pick(_, _)
Pick(u, S) ==
    IF Len(u) = 0 THEN <<>>
    ELSE Pick(SubSeq(u, 1, Len(u) - 1), S) \o (IF Len(u) \in S THEN <<u[Len(u)]>> ELSE <<>>)

SymbolTables == {Pick(SymbolUniverse, S) : S \in SUBSET (1..Len(SymbolUniverse))}

\* index 0 is the null section; index 2 is past the end of the second table
SectionTables == { <<>>, << <<>>, StrText >>, << <<>>, StrText, StrBss >> }

ProgTables == { <<"PT_LOAD">>, <<"PT_PHDR", "PT_INTERP", "PT_LOAD">> }

Go1_23_0 == <<"g", "o", "1", ".", "2", "3", ".", "0">>
Go1_22_5 == <<"g", "o", "1", ".", "2", "2", ".", "5">>
Go1_24_Qualified == <<"g", "o", "1", ".", "2", "4", " ", "X", ":", "n", "o", "c", "o", "v", "e", "r", "a", "g", "e", "r", "e", "d", "e", "s", "i", "g", "n">>
Go1_24rc1 == <<"g", "o", "1", ".", "2", "4", "r", "c", "1">>
Go1_24_Pre == <<"g", "o", "1", ".", "2", "4", "-", "r", "c", "1">>

GoVersions == {Go1_23_0, Go1_22_5, Go1_24_Qualified, Go1_24rc1, Go1_24_Pre}

Setting(k, v) == [Key |-> k, Value |-> v]

CgoSettings == { <<>>, <<Setting(StrCgoEnabled, <<"0">>)>>, <<Setting(StrCgoEnabled, StrOne)>> }

TagSettings ==
    { <<>>, <<Setting(StrTags, <<"n", "e", "t", "g", "o">>)>>,
      <<Setting(StrTags, <<"n", "e", "t", "g", "o">> \o <<",">> \o StrNoOpenssl)>> }

ExperimentSettings ==
    { <<>>, <<Setting(StrGoexperiment, <<"n", "o", "c", "o", "v", "e", "r", "a", "g", "e", "r", "e", "d", "e", "s", "i", "g", "n">>)>>,
      <<Setting(StrGoexperiment, <<"n", "o", "c", "o", "v", "e", "r", "a", "g", "e", "r", "e", "d", "e", "s", "i", "g", "n">> \o <<",">> \o StrStrictfipsruntime)>> }

\* the Go toolchain writes each build setting once
BuildSettings == {c \o t \o e : c \in CgoSettings, t \in TagSettings, e \in ExperimentSettings}

NoBuildInfo == [present |-> FALSE, GoVersion |-> <<>>, Settings |-> <<>>]

BuildInfos ==
    {NoBuildInfo} \cup
    {[present |-> TRUE, GoVersion |-> v, Settings |-> st] : v \in GoVersions, st \in BuildSettings}

\* ELF type and DT_FLAGS_1 of the files elf.Open accepts (1 is DF_1_NOW)
ElfKinds ==
    { [Type |-> "ET_EXEC", dynErr |-> FALSE, dynFlags |-> <<>>],
      [Type |-> "ET_DYN", dynErr |-> TRUE, dynFlags |-> <<>>],
      [Type |-> "ET_DYN", dynErr |-> FALSE, dynFlags |-> <<1>>],
      [Type |-> "ET_DYN", dynErr |-> FALSE, dynFlags |-> <<1, DF_1_PIE + 1>>],
      [Type |-> "ET_REL", dynErr |-> FALSE, dynFlags |-> <<>>] }

Unopened(how) ==
    [open |-> how, Type |-> "", dynErr |-> FALSE, dynFlags |-> <<>>, Progs |-> <<>>,
     Sections |-> <<>>, Symbols |-> <<>>, bi |-> NoBuildInfo]

Files ==
    {Unopened("bad magic"), Unopened("read error")} \cup
    {[open |-> "ok", Type |-> k.Type, dynErr |-> k.dynErr, dynFlags |-> k.dynFlags,
      Progs |-> p, Sections |-> sec, Symbols |-> sy, bi |-> b] :
        k \in ElfKinds, p \in ProgTables, sec \in SectionTables, sy \in SymbolTables,
        b \in BuildInfos}

NoVerdict == [ok |-> TRUE, errs |-> <<>>, printed |-> ""]

(***************************************************************************)
(* ValidateBinary on one file.                                             *)
(***************************************************************************)
InitScanIdle ==
    /\ tree = <<>> /\ pos = 0 /\ allValid = TRUE /\ walkErr = FALSE
    /\ validated = {} /\ scanResult = TRUE /\ spc = "idle"

InitLibIdle == root = <<>> /\ libVerdict = NoVerdict /\ lpc = "idle"

InitBinIdle == file = Unopened("bad magic") /\ verdict = NoVerdict /\ lookups = {} /\ vpc = "idle"

InitBinary ==
    /\ file \in Files
    /\ verdict = NoVerdict
    /\ lookups = {}
    /\ vpc = "start"
    /\ InitScanIdle
    /\ InitLibIdle

CallValidateBinary ==
    /\ vpc = "start"
    /\ verdict' = ValidateBinary(file)
    /\ lookups' = SectionLookups(file)
    /\ vpc' = "done"
    /\ UNCHANGED <<file, scanVars, libVars>>

NextBinary == CallValidateBinary

SpecBinary == InitBinary /\ [][NextBinary]_vars

(***************************************************************************)
(* The facts about a file that the claims speak of, stated on the file     *)
(* itself and not through the rule engine.                                 *)
(***************************************************************************)
Range(q) == {q[i] : i \in 1..Len(q)}

InspectionError(f) ==
    f.open = "read error" \/ (f.open = "ok" /\ f.Type = "ET_DYN" /\ f.dynErr)

Recognized(f) ==
    /\ f.open = "ok"
    /\ \/ f.Type = "ET_EXEC"
       \/ f.Type = "ET_DYN" /\ ~f.dynErr /\ (DF_1_PIE + 1) \in Range(f.dynFlags)

Owned(f, sym) == sym.Section < SHN_LORESERVE /\ sym.Section < Len(f.Sections)

\* some symbol with one of the names is owned by a section other than .bss
OwnedOutsideBss(f, names) ==
    \E sym \in Range(f.Symbols) :
        sym.Name \in names /\ Owned(f, sym) /\ f.Sections[sym.Section + 1] # StrBss

CryptoUsing(f) == OwnedOutsideBss(f, {StrCryptoSym})

Static(f) == "PT_INTERP" \notin Range(f.Progs)

HasSetting(f, key, value) == Setting(key, value) \in Range(f.bi.Settings)

HasKey(f, key) == \E st \in Range(f.bi.Settings) : st.Key = key

CgoOn(f) == HasSetting(f, StrCgoEnabled, StrOne)

ForbiddenTag(f) ==
    \E st \in Range(f.bi.Settings) :
        st.Key = StrTags /\ SliceContains(Split(st.Value, ","), StrNoOpenssl)

ExperimentOn(f) ==
    \E st \in Range(f.bi.Settings) :
        st.Key = StrGoexperiment /\ Contains(st.Value, StrStrictfipsruntime)

VerSupported == {Go1_23_0, Go1_24_Qualified}
VerUnsupported == {Go1_22_5, Go1_24_Pre}
VerUnparseable == {Go1_24rc1}

\* the file passes both gates and carries build metadata
GoBinary(f) == Recognized(f) /\ CryptoUsing(f) /\ f.bi.present

If(c, reasons) == IF c THEN reasons ELSE <<>>

RStatic == Reason("statically linked", <<>>)
RCgo == Reason("not compiled with CGO_ENABLED=1", <<>>)
RCgoInit == Reason("missing cgo_init symbol", <<>>)
RUnsupported == Reason("Go version not yet supported by fips-validator", <<>>)
RDlopen == Reason("missing required symbol", StrDlopen)
RTag == Reason("uses forbidden build tag", StrNoOpenssl)
RExperiment == Reason("missing required GOEXPERIMENT value 'strictfipsruntime'", <<>>)
RParse(f) == Reason("failed to parse Go version", f.bi.GoVersion)

Count(q, r) == Cardinality({i \in 1..Len(q) : q[i] = r})

Done == vpc = "done"

\* C1: a file that is not a recognized loadable executable, or that has no
\* "crypto" symbol owned by a section other than .bss, validates as success
\* with no reasons, whatever its linkage and build metadata.
C1_SkipIsSuccess ==
    (Done /\ (~Recognized(file) \/ ~CryptoUsing(file)))
        => (verdict.ok /\ verdict.errs = <<>>)

\* a static executable with non-compliant metadata whose only crypto symbols
\* are in .bss or unowned is skipped
C1_Witness ==
    /\ Done /\ Recognized(file) /\ ~CryptoUsing(file) /\ Static(file)
    /\ StrCryptoSym \in {sym.Name : sym \in Range(file.Symbols)}
    /\ Len(file.Sections) = 3
    /\ file.bi.present /\ ~CgoOn(file) /\ ForbiddenTag(file)
    /\ verdict.printed = "skipped (no crypto)"

\* C2: a recognized, crypto-using, statically linked binary fails with the
\* reason "statically linked", whatever its build metadata.
C2_StaticAlwaysFails ==
    (Done /\ Recognized(file) /\ CryptoUsing(file) /\ Static(file))
        => (~verdict.ok /\ Count(verdict.errs, RStatic) = 1)

\* a static binary whose build metadata is fully compliant
C2_Witness ==
    /\ Done /\ GoBinary(file) /\ Static(file)
    /\ file.bi.GoVersion \in VerSupported
    /\ verdict.errs = <<RStatic>>

\* the reasons C3 expects, in check order
C3_Expected(f) ==
    If(~CgoOn(f), <<RCgo>>)
        \o If(~OwnedOutsideBss(f, {StrCgoInit, StrCgoTopofstack}), <<RCgoInit>>)
        \o If(~OwnedOutsideBss(f, {StrDlopen}), <<RDlopen>>)
        \o If(ForbiddenTag(f), <<RTag>>)

\* C3: for a dynamically linked Go binary of a supported version whose
\* GOEXPERIMENT holds the required token, the reasons are exactly one per
\* violated check (CGO_ENABLED, cgo-init, required symbol, forbidden tag), in
\* check order, and the verdict is success exactly when there is none.
C3_OneReasonPerViolation ==
    (/\ Done /\ GoBinary(file) /\ ~Static(file)
     /\ file.bi.GoVersion \in VerSupported /\ ExperimentOn(file))
        => (/\ verdict.errs = C3_Expected(file)
            /\ verdict.ok = (C3_Expected(file) = <<>>))

\* CGO_ENABLED=0, forbidden tag, required symbol missing: three reasons
C3_Witness ==
    /\ Done /\ GoBinary(file) /\ ~Static(file)
    /\ file.bi.GoVersion \in VerSupported /\ ExperimentOn(file)
    /\ HasSetting(file, StrCgoEnabled, <<"0">>)
    /\ verdict.errs = <<RCgo, RDlopen, RTag>>

\* C4 (as claimed): when the experiment check runs on a Go binary whose
\* GOEXPERIMENT setting does not hold the token, key present or absent, the
\* verdict holds the GOEXPERIMENT reason exactly once.
C4_ExperimentRequired ==
    (/\ Done /\ GoBinary(file) /\ file.bi.GoVersion \notin VerUnparseable
     /\ ~ExperimentOn(file))
        => Count(verdict.errs, RExperiment) = 1

\* C5 (as claimed): an inspection error other than the bad magic number of a
\* script is not reported as success.
C5_ErrorIsNotSuccess ==
    (Done /\ InspectionError(file)) => ~verdict.ok

\* the reasons of the checks other than the symbol check and the experiment check
C6_Others(f, symbolReasons) ==
    If(Static(f), <<RStatic>>)
        \o If(~CgoOn(f), <<RCgo>>)
        \o If(~OwnedOutsideBss(f, {StrCgoInit, StrCgoTopofstack}), <<RCgoInit>>)
        \o symbolReasons
        \o If(ForbiddenTag(f), <<RTag>>)

\* C6: a version that parses but matches no table entry gives exactly one
\* unsupported-version reason and no missing-symbol reason, while the static
\* link, CGO_ENABLED, cgo-init and tag checks contribute as usual and a
\* GOEXPERIMENT value without the token is still reported.
C6_UnsupportedVersion ==
    (Done /\ GoBinary(file) /\ file.bi.GoVersion \in VerUnsupported)
        => (/\ SelectSeq(verdict.errs, LAMBDA r : r # RExperiment)
                  = C6_Others(file, <<RUnsupported>>)
            /\ Count(verdict.errs, RDlopen) = 0
            /\ (HasKey(file, StrGoexperiment) /\ ~ExperimentOn(file)
                  => Count(verdict.errs, RExperiment) = 1))

\* go1.22.5, required symbol absent from the symbol table, static, tag forbidden
C6_Witness ==
    /\ Done /\ GoBinary(file) /\ file.bi.GoVersion = Go1_22_5
    /\ ~OwnedOutsideBss(file, {StrDlopen})
    /\ Static(file) /\ ForbiddenTag(file)
    /\ Count(verdict.errs, RUnsupported) = 1

Unowned(f, names) == \A sym \in Range(f.Symbols) : sym.Name \in names => ~Owned(f, sym)

\* C10: the section table is indexed only below the reserved range and below
\* its length, and symbols whose index is reserved or out of range satisfy
\* none of the crypto gate, the cgo-init check and the required-symbol check.
C10_LookupsInBounds ==
    Done =>
        /\ \A i \in lookups : i >= 0 /\ i < SHN_LORESERVE /\ i < Len(file.Sections)
        /\ (Recognized(file) /\ Unowned(file, {StrCryptoSym}))
              => verdict.printed = "skipped (no crypto)"
        /\ (/\ GoBinary(file) /\ file.bi.GoVersion \notin VerUnparseable
            /\ Unowned(file, {StrCgoInit, StrCgoTopofstack}))
              => Count(verdict.errs, RCgoInit) = 1
        /\ (/\ GoBinary(file) /\ file.bi.GoVersion \in VerSupported
            /\ Unowned(file, {StrDlopen}))
              => Count(verdict.errs, RDlopen) = 1

\* the checks ran on a table that holds a symbol indexed at the table's length
\* and one in the reserved range, and a cgo-init symbol that is unowned
C10_Witness ==
    /\ Done /\ GoBinary(file) /\ file.bi.GoVersion \in VerSupported
    /\ lookups # {}
    /\ \E sym \in Range(file.Symbols) : sym.Section = Len(file.Sections)
    /\ \E sym \in Range(file.Symbols) : sym.Section >= SHN_LORESERVE
    /\ StrCgoTopofstack \in {sym.Name : sym \in Range(file.Symbols)}
    /\ Unowned(file, {StrCgoInit, StrCgoTopofstack})
    /\ Count(verdict.errs, RCgoInit) = 1

(***************************************************************************)
(* internal/scanner: ScanDirTree.  The tree is the sequence of entries     *)
(* WalkDir hands to the callback; an entry is [err, kind, infoErr, perm,   *)
(* file]: err is the error WalkDir passes in, kind the type of the entry,  *)
(* infoErr whether file.Info() fails, perm the permission bits.            *)
(***************************************************************************)
\* fi.Mode().Perm()&0o111 # 0
HasExecBit(perm) == (perm \div 64) % 2 = 1 \/ (perm \div 8) % 2 = 1 \/ perm % 2 = 1

Go123(settings, progs, symbols) ==
    [open |-> "ok", Type |-> "ET_EXEC", dynErr |-> FALSE, dynFlags |-> <<>>,
     Progs |-> progs, Sections |-> << <<>>, StrText, StrBss >>, Symbols |-> symbols,
     bi |-> [present |-> TRUE, GoVersion |-> Go1_23_0, Settings |-> settings]]

CompliantSettings ==
    <<Setting(StrCgoEnabled, StrOne), Setting(StrGoexperiment, StrStrictfipsruntime)>>

ScriptFile == Unopened("bad magic")
CompliantBinary ==
    Go123(CompliantSettings, <<"PT_PHDR", "PT_INTERP", "PT_LOAD">>,
          <<Sym(StrCryptoSym, 1), Sym(StrCgoInit, 1), Sym(StrDlopen, 1)>>)
StaticBinary ==
    Go123(CompliantSettings, <<"PT_LOAD">>,
          <<Sym(StrCryptoSym, 1), Sym(StrCgoInit, 1), Sym(StrDlopen, 1)>>)
NoCgoBinary ==
    Go123(<<Setting(StrCgoEnabled, <<"0">>)>>, <<"PT_PHDR", "PT_INTERP", "PT_LOAD">>,
          <<Sym(StrCryptoSym, 1)>>)
NoCryptoBinary ==
    Go123(<<>>, <<"PT_LOAD">>, <<Sym(StrCryptoSym, 2), Sym(StrCgoInit, 1)>>)

Entry(err, kind, infoErr, perm, f) ==
    [err |-> err, kind |-> kind, infoErr |-> infoErr, perm |-> perm, file |-> f]

\* 420 = 0o644, 493 = 0o755, 448 = 0o700, 417 = 0o641
Entries ==
    { Entry(TRUE, "dir", FALSE, 493, ScriptFile),
      Entry(FALSE, "dir", FALSE, 493, ScriptFile),
      Entry(FALSE, "symlink", FALSE, 493, StaticBinary),
      Entry(FALSE, "regular", TRUE, 493, CompliantBinary),
      Entry(FALSE, "regular", FALSE, 420, StaticBinary),
      Entry(FALSE, "regular", FALSE, 493, ScriptFile),
      Entry(FALSE, "regular", FALSE, 493, CompliantBinary),
      Entry(FALSE, "regular", FALSE, 448, StaticBinary),
      Entry(FALSE, "regular", FALSE, 417, NoCgoBinary),
      Entry(FALSE, "regular", FALSE, 493, NoCryptoBinary) }

Trees == UNION {[1..n -> Entries] : n \in 0..MaxFiles}

\* the WalkDir callback on one entry: [err, called, allValid] are the error it
\* returns, whether it called ValidateBinary, and allValid after it
CallbackLastWins(e, valid) ==
    IF e.err THEN [err |-> TRUE, called |-> FALSE, allValid |-> valid]
    ELSE IF e.kind = "dir" THEN [err |-> FALSE, called |-> FALSE, allValid |-> valid]
    ELSE IF e.kind # "regular" THEN [err |-> FALSE, called |-> FALSE, allValid |-> valid]
    ELSE IF e.infoErr THEN [err |-> TRUE, called |-> FALSE, allValid |-> valid]
    ELSE IF ~HasExecBit(e.perm) THEN [err |-> FALSE, called |-> FALSE, allValid |-> valid]
    ELSE [err |-> FALSE, called |-> TRUE, allValid |-> ValidateBinary(e.file).ok]

Callback(e, valid) ==
    IF e.err THEN [err |-> TRUE, called |-> FALSE, allValid |-> valid]
    ELSE IF e.kind = "dir" THEN [err |-> FALSE, called |-> FALSE, allValid |-> valid]
    ELSE IF e.kind # "regular" THEN [err |-> FALSE, called |-> FALSE, allValid |-> valid]
    ELSE IF e.infoErr THEN [err |-> TRUE, called |-> FALSE, allValid |-> valid]
    ELSE IF ~HasExecBit(e.perm) THEN [err |-> FALSE, called |-> FALSE, allValid |-> valid]
    ELSE [err |-> FALSE, called |-> TRUE,
          allValid |-> IF ~ValidateBinary(e.file).ok THEN FALSE ELSE valid]

InitScan ==
    /\ tree \in Trees
    /\ pos = 0
    /\ allValid = TRUE
    /\ walkErr = FALSE
    /\ validated = {}
    /\ scanResult = TRUE
    /\ spc = "walking"
    /\ InitBinIdle
    /\ InitLibIdle

\* WalkDir hands the next entry to the callback
Visit ==
    /\ spc = "walking" /\ ~walkErr /\ pos < Len(tree)
    /\ LET r == Callback(tree[pos + 1], allValid)
       IN /\ allValid' = r.allValid
          /\ walkErr' = r.err
          /\ validated' = IF r.called THEN validated \cup {pos + 1} ELSE validated
    /\ pos' = pos + 1
    /\ UNCHANGED <<tree, scanResult, spc, binVars, libVars>>

\* WalkDir returns: its error, or nil at the end of the tree
Return ==
    /\ spc = "walking" /\ (walkErr \/ pos = Len(tree))
    /\ scanResult' = IF walkErr THEN FALSE ELSE allValid
    /\ spc' = "done"
    /\ UNCHANGED <<tree, pos, allValid, walkErr, validated, binVars, libVars>>

NextScan == Visit \/ Return

SpecScan == InitScan /\ [][NextScan]_vars

\* an entry the scan must validate, and the files whose validation fails
ExecutableFile(e) == e.kind = "regular" /\ e.perm \in {493, 448, 417}

Rejected == {StaticBinary, NoCgoBinary}

TraversalError(e) == e.err \/ (e.kind = "regular" /\ e.infoErr)

\* what holds at every point of the walk: exactly the executable regular files
\* visited so far were validated, allValid is the conjunction of their results,
\* the walk stops at the first traversal error, and the returned value is
\* allValid unless a traversal error occurred
C7_Result ==
    /\ validated = {i \in 1..pos : ExecutableFile(tree[i]) /\ ~TraversalError(tree[i])}
    /\ allValid = (\A i \in validated : tree[i].file \notin Rejected)
    /\ walkErr = (\E i \in 1..pos : TraversalError(tree[i]))
    /\ \A i \in 1..(pos - 1) : ~TraversalError(tree[i])
    /\ spc = "done" =>
          /\ walkErr \/ pos = Len(tree)
          /\ scanResult = (~walkErr /\ \A i \in validated : tree[i].file \notin Rejected)

\* C7: ScanDirTree returns true iff no traversal error occurred and every
\* visited executable regular file validated as success; a failure makes
\* allValid false for good and does not stop the validation of later files;
\* other entries are never validated; a traversal error ends the walk at that
\* entry with result false.
C7_ScanIsConjunction == []C7_Result /\ [][allValid = FALSE => allValid' = FALSE]_vars

\* a rejected file first, two more files validated after it, result false
C7_Witness ==
    /\ spc = "done" /\ ~walkErr /\ scanResult = FALSE
    /\ Len(tree) = 3 /\ validated = {1, 2, 3}
    /\ tree[1].file \in Rejected /\ tree[2].file \notin Rejected

(***************************************************************************)
(* internal/validation: ValidateOpenSSL.  root[i] is the directory         *)
(* libPaths[i] under rootPath: [kind, entries], kind "missing" (Lstat      *)
(* fails), "symlink" or "dir"; an entry is [Name, regular, run, dynsyms]:  *)
(* run is how `nm -D` on it ends, dynsyms the symbols it exports.          *)
(***************************************************************************)
libPaths == <<"/lib64", "/usr/lib64", "/lib", "/usr/lib">>

StrLibcrypto == <<"l", "i", "b", "c", "r", "y", "p", "t", "o">>
StrDotSo == <<".", "s", "o">>
StrFIPSMode == <<"F", "I", "P", "S", "_", "m", "o", "d", "e">>
StrFipsMode == <<"f", "i", "p", "s", "_", "m", "o", "d", "e">>
StrEvpIsFips == <<"E", "V", "P", "_", "d", "e", "f", "a", "u", "l", "t", "_", "p", "r", "o", "p", "e", "r", "t", "i", "e", "s", "_", "i", "s", "_", "f", "i", "p", "s", "_", "e", "n", "a", "b", "l", "e", "d">>
StrSha256 == <<"S", "H", "A", "2", "5", "6">>

\* ^libcrypto.*\.so($|\..*)
cryptoLibRegex(name) ==
    /\ HasPrefix(name, StrLibcrypto)
    /\ \E i \in Len(StrLibcrypto)..(Len(name) - Len(StrDotSo)) :
          /\ SubSeq(name, i + 1, i + Len(StrDotSo)) = StrDotSo
          /\ (i + Len(StrDotSo) = Len(name) \/ name[i + Len(StrDotSo) + 1] = ".")

Lib(name, regular, run, dynsyms) ==
    [Name |-> name, regular |-> regular, run |-> run, dynsyms |-> dynsyms]

NameSo == <<"l", "i", "b", "c", "r", "y", "p", "t", "o", ".", "s", "o">>
NameSo11 == <<"l", "i", "b", "c", "r", "y", "p", "t", "o", ".", "s", "o", ".", "1", ".", "1">>
NameSo10 == <<"l", "i", "b", "c", "r", "y", "p", "t", "o", ".", "s", "o", ".", "1", "0">>
NameSo3 == <<"l", "i", "b", "c", "r", "y", "p", "t", "o", ".", "s", "o", ".", "3">>
NameSo307 == <<"l", "i", "b", "c", "r", "y", "p", "t", "o", ".", "s", "o", ".", "3", ".", "0", ".", "7">>
NameSolo == <<"l", "i", "b", "c", "r", "y", "p", "t", "o", ".", "s", "o", "l", "o">>

\* in the order os.ReadDir lists them (sorted by name)
LibUniverse ==
    << Lib(NameSo, TRUE, "exit 1", <<StrFIPSMode>>),
       Lib(NameSo11, TRUE, "ok", <<StrSha256>>),
       Lib(NameSo10, FALSE, "ok", <<StrSha256>>),
       Lib(NameSo3, TRUE, "ok", <<StrSha256, StrEvpIsFips>>),
       Lib(NameSo307, TRUE, "not started", <<StrEvpIsFips>>),
       Lib(NameSolo, TRUE, "ok", <<StrSha256>>) >>

DirListings ==
    {Pick(LibUniverse, S) : S \in {T \in SUBSET (1..Len(LibUniverse)) : Cardinality(T) <= MaxLibs}}

Dirs ==
    {[kind |-> "missing", entries |-> <<>>],
     [kind |-> "symlink", entries |-> <<LibUniverse[4]>>]}
    \cup {[kind |-> "dir", entries |-> l] : l \in DirListings}

Roots == [1..Len(libPaths) -> Dirs]

RECURSIVE Flatten(_)
Flatten(ss) == IF Len(ss) = 0 THEN <<>> ELSE Head(ss) \o Flatten(Tail(ss))

LibPath(i, e) == [dir |-> libPaths[i], lib |-> e]

MatchesIn(i, d) ==
    MapSeq(SelectSeq(d.entries, LAMBDA e : e.regular /\ cryptoLibRegex(e.Name)),
           LAMBDA e : LibPath(i, e))

findCryptoLibsFollowSymlinks(r) ==
    Flatten([i \in 1..Len(libPaths) |->
                IF r[i].kind = "missing" THEN <<>> ELSE MatchesIn(i, r[i])])

findCryptoLibs(r) ==
    Flatten([i \in 1..Len(libPaths) |->
                IF r[i].kind # "dir" THEN <<>> ELSE MatchesIn(i, r[i])])

RECURSIVE NmLines(_)
NmLines(syms) ==
    IF Len(syms) = 0 THEN <<>>
    ELSE <<"T", " ">> \o Head(syms) \o <<"\n">> \o NmLines(Tail(syms))

\* executor.Execute(ctx, "", "nm", "-D", path)
Execute(l) ==
    CASE l.lib.run = "ok" -> [stdout |-> NmLines(l.lib.dynsyms), rc |-> 0, err |-> FALSE]
      [] l.lib.run = "exit 1" -> [stdout |-> <<>>, rc |-> 1, err |-> FALSE]
      [] OTHER -> [stdout |-> <<>>, rc |-> -1, err |-> TRUE]

\* the reasons one library adds (openssl.go:33-48)
LibErrs(l) ==
    LET x == Execute(l)
    IN IF x.err THEN <<Reason("nm could not be run", l)>>
       ELSE IF x.rc # 0 THEN <<Reason("nm stderr", l)>>
       ELSE IF ~(\/ Contains(x.stdout, StrFIPSMode)
                 \/ Contains(x.stdout, StrFipsMode)
                 \/ Contains(x.stdout, StrEvpIsFips))
       THEN <<Reason("is not FIPS-capable", l)>>
       ELSE <<>>

NoLib == [dir |-> "", lib |-> Lib(<<>>, FALSE, "", <<>>)]

ValidateOpenSSL(r) ==
    LET cryptoLibs == findCryptoLibs(r)
        errs == IF Len(cryptoLibs) = 0
                THEN <<Reason("libcrypto not found (missing package openssl-libs?)", NoLib)>>
                ELSE Flatten(MapSeq(cryptoLibs, LibErrs))
    IN [ok |-> Len(errs) = 0, errs |-> errs,
        printed |-> IF Len(errs) > 0 THEN "failed" ELSE "success"]

InitLib ==
    /\ root \in Roots
    /\ libVerdict = NoVerdict
    /\ lpc = "start"
    /\ InitBinIdle
    /\ InitScanIdle

CallValidateOpenSSL ==
    /\ lpc = "start"
    /\ libVerdict' = ValidateOpenSSL(root)
    /\ lpc' = "done"
    /\ UNCHANGED <<root, binVars, scanVars>>

NextLib == CallValidateOpenSSL

SpecLib == InitLib /\ [][NextLib]_vars

\* the libraries the scan is about: regular files with a libcrypto name in a
\* listed directory that is not a symbolic link
MatchingNames == {NameSo, NameSo11, NameSo10, NameSo3, NameSo307}

Matched(r) ==
    {l \in UNION {{LibPath(i, r[i].entries[k]) : k \in 1..Len(r[i].entries)} :
                     i \in {j \in 1..Len(libPaths) : r[j].kind = "dir"}} :
        l.lib.regular /\ l.lib.Name \in MatchingNames}

Exports(l) == Range(l.lib.dynsyms) \cap {StrFIPSMode, StrFipsMode, StrEvpIsFips} # {}

Listed(l) == l.lib.run = "ok"

RNotFound == Reason("libcrypto not found (missing package openssl-libs?)", NoLib)
RNotFips(l) == Reason("is not FIPS-capable", l)
RNm(l) == Reason(IF l.lib.run = "exit 1" THEN "nm stderr" ELSE "nm could not be run", l)

====
